---- MODULE Spec2Model ----
(***************************************************************************)
(* Entra ID authentication helpers for Azure Database for PostgreSQL       *)
(* (package azurepg_entra): token acquisition, claim decoding, username    *)
(* extraction with the management-scope fallback, and the psycopg2,        *)
(* psycopg3 and SQLAlchemy adapters that forward the result to the driver. *)
(*                                                                         *)
(* Python strings are sequences of one-character strings, so that rfind,   *)
(* slicing, lower() and endswith() are computed and not assumed.           *)
(***************************************************************************)
EXTENDS Integers, Sequences, FiniteSets, TLC

\* Number of successive connection attempts explored.
MaxAttempts == 2

AZURE_DB_FOR_POSTGRES_SCOPE == "https://ossrdbms-aad.database.windows.net/.default"

AZURE_MANAGEMENT_SCOPE == "https://management.azure.com/.default"

(***************************************************************************)
(* Python values                                                           *)
(***************************************************************************)
\* None or a str.
PyNone == [t |-> "none", s |-> <<>>]

PyStr(s) == [t |-> "str", s |-> s]

\* bool(v): None and "" are falsy.
Truthy(v) == v.t = "str" /\ v.s # <<>>

\* a or b
Or(a, b) == IF Truthy(a) THEN a ELSE b

\* isinstance(v, str)
IsStr(v) == v.t = "str"

UPPER == <<"A","B","C","D","E","F","G","H","I","J","K","L","M","N","O","P","Q","R","S","T","U","V","W","X","Y","Z">>

LOWER == <<"a","b","c","d","e","f","g","h","i","j","k","l","m","n","o","p","q","r","s","t","u","v","w","x","y","z">>

\* str.lower(), one character
LowerChar(c) == IF \E i \in 1..Len(UPPER) : UPPER[i] = c
                THEN LOWER[CHOOSE i \in 1..Len(UPPER) : UPPER[i] = c]
                ELSE c

\* str.lower()
Lower(s) == [i \in 1..Len(s) |-> LowerChar(s[i])]

\* s.rfind(c), 0-based, -1 when c does not occur
RFind(s, c) == IF \E i \in 1..Len(s) : s[i] = c
               THEN (CHOOSE i \in 1..Len(s) : s[i] = c /\ \A j \in (i+1)..Len(s) : s[j] # c) - 1
               ELSE -1

\* s[:n] and s[n:] for 0 <= n <= len(s)
SliceTo(s, n) == SubSeq(s, 1, n)

SliceFrom(s, n) == SubSeq(s, n + 1, Len(s))

\* s.endswith(suffix)
EndsWith(s, suffix) == /\ Len(suffix) <= Len(s)
                       /\ SubSeq(s, Len(s) - Len(suffix) + 1, Len(s)) = suffix

\* the literal "providers/microsoft.managedidentity/userassignedidentities"
PROVIDER_SUFFIX == <<"p","r","o","v","i","d","e","r","s","/","m","i","c","r","o","s","o","f","t",".","m","a","n","a","g","e","d","i","d","e","n","t","i","t","y","/","u","s","e","r","a","s","s","i","g","n","e","d","i","d","e","n","t","i","t","i","e","s">>

(***************************************************************************)
(* core.parse_principal_name                                               *)
(***************************************************************************)
\* variant: the provider part compared without lower()
parse_principal_name_case_sensitive(xms_mirid) ==
    IF ~Truthy(xms_mirid) THEN PyNone
    ELSE LET last_slash_index == RFind(xms_mirid.s, "/") IN
         IF last_slash_index = -1 THEN PyNone
         ELSE LET beginning == SliceTo(xms_mirid.s, last_slash_index)
                  principal_name == SliceFrom(xms_mirid.s, last_slash_index + 1)
              IN IF principal_name = <<>> \/ ~EndsWith(beginning, PROVIDER_SUFFIX)
                 THEN PyNone
                 ELSE PyStr(principal_name)

parse_principal_name(xms_mirid) ==
    IF ~Truthy(xms_mirid) THEN PyNone
    ELSE LET last_slash_index == RFind(xms_mirid.s, "/") IN
         IF last_slash_index = -1 THEN PyNone
         ELSE LET beginning == SliceTo(xms_mirid.s, last_slash_index)
                  principal_name == SliceFrom(xms_mirid.s, last_slash_index + 1)
              IN IF principal_name = <<>> \/ ~EndsWith(Lower(beginning), PROVIDER_SUFFIX)
                 THEN PyNone
                 ELSE PyStr(principal_name)

(***************************************************************************)
(* Claims and tokens                                                       *)
(***************************************************************************)
\* A claims object is a Python dict: a function from the keys present to values.
EmptyClaims == <<>>

\* claims.get(key): None when the key is absent
Get(claims, key) == IF key \in DOMAIN claims THEN claims[key] ELSE PyNone

\* marks a key that a claims object does not carry
Absent == [t |-> "absent", s |-> <<>>]

ClaimKeys == {"xms_mirid", "upn", "preferred_username", "unique_name", "sub"}

\* the dict holding the fields of r that are not Absent
Dict(r) == [k \in {k \in ClaimKeys : r[k] # Absent} |-> r[k]]

\* a user-assigned managed identity resource path, and a path of another shape
ValidPath == <<"/","s","u","b","s","c","r","i","p","t","i","o","n","s","/","1","2","3","4","5","/","r","e","s","o","u","r","c","e","g","r","o","u","p","s","/","m","y","g","r","o","u","p","/","p","r","o","v","i","d","e","r","s","/","M","i","c","r","o","s","o","f","t",".","M","a","n","a","g","e","d","I","d","e","n","t","i","t","y","/","u","s","e","r","A","s","s","i","g","n","e","d","I","d","e","n","t","i","t","i","e","s","/","m","y","-","i","d","e","n","t","i","t","y">>

InvalidPath == <<"/","i","n","v","a","l","i","d","/","p","a","t","h">>

XmsValues == {Absent, PyStr(<<>>), PyStr(InvalidPath), PyStr(ValidPath)}

UpnValues == {Absent, PyStr(<<>>), PyStr(<<"u">>)}

PreferredValues == {Absent, PyStr(<<"p">>)}

UniqueValues == {Absent, PyStr(<<"q">>)}

\* every claims object carrying a subject, and the empty claims object
ClaimsSet ==
    {Dict(r) : r \in [xms_mirid : XmsValues, upn : UpnValues,
                      preferred_username : PreferredValues,
                      unique_name : UniqueValues, sub : {PyStr(<<"s">>)}]}
    \cup {EmptyClaims}

\* the claims objects issued to connection attempts made through an adapter
AdapterClaimsSet ==
    {Dict(r) : r \in [xms_mirid : {Absent, PyStr(InvalidPath), PyStr(ValidPath)},
                      upn : {Absent, PyStr(<<"u">>)},
                      preferred_username : {Absent},
                      unique_name : {Absent}, sub : {PyStr(<<"s">>)}]}
    \cup {EmptyClaims}

\* A token string: three dot-separated segments with the claims as payload
\* ("jwt"), or a string of another shape ("malformed").  value is the string
\* itself, made unique by the scope and the serial number of the request.
Token(scope, serial, form, claims) ==
    [value |-> <<"token", scope, serial>>, form |-> form, claims |-> claims]

NoToken == [value |-> <<>>, form |-> "none", claims |-> EmptyClaims]

\* core.decode_jwt: the payload claims, or None for a token that does not decode
decode_jwt(token) ==
    IF token.form = "jwt" THEN [none |-> FALSE, claims |-> token.claims]
    ELSE [none |-> TRUE, claims |-> EmptyClaims]

\* `not claims` for the value decode_jwt returned: None and {} are falsy
NotClaims(decoded) == decoded.none \/ DOMAIN decoded.claims = {}

\* psycopg2 extension decode_jwt: the payload claims; raises on other shapes
psycopg2_decode_jwt(token) ==
    IF token.form = "jwt" THEN [raised |-> FALSE, claims |-> token.claims]
    ELSE [raised |-> TRUE, claims |-> EmptyClaims]

\* variant: unique_name ahead of the other claims
core_username_unique_first(claims) ==
    Or(Or(Or(Get(claims, "unique_name"), parse_principal_name(Get(claims, "xms_mirid"))),
          Get(claims, "upn")),
       Get(claims, "preferred_username"))

\* core.get_entra_conninfo, the username expression: a conditional expression
\* whose else branch is the whole `or` chain
core_username(claims) ==
    LET xms_mirid == Get(claims, "xms_mirid") IN
    IF IsStr(xms_mirid) THEN parse_principal_name(xms_mirid)
    ELSE Or(Or(Or(PyNone, Get(claims, "upn")), Get(claims, "preferred_username")),
            Get(claims, "unique_name"))

\* psycopg2 extension get_entra_conninfo, the username expression
psycopg2_username(claims) ==
    Or(Or(Or(parse_principal_name(Get(claims, "xms_mirid")), Get(claims, "upn")),
          Get(claims, "preferred_username")),
       Get(claims, "unique_name"))

(***************************************************************************)
(* State                                                                   *)
(***************************************************************************)
VARIABLES
    entry,       \* the entry point of the attempt in progress ("none" before the first)
    args,        \* the parameters as the caller passed them
    kwargs,      \* the connection parameters (kwargs / cparams) as the entry point holds them
    pc,          \* "idle", "db" / "mgmt" (a get_token call is outstanding), "done"
    cred,        \* the credential object the resolution calls
    ops,         \* the operations performed on the credential in this attempt
    trail,       \* the resolution states entered in this attempt
    db_token,    \* the token returned by the DB-scope request
    mgmt_token,  \* the token returned by the management-scope request
    username,    \* the local `username` of get_entra_conninfo
    conninfo,    \* what get_entra_conninfo returned or raised
    result,      \* what the entry point returned or raised
    driver,      \* the parameters the driver's connect received
    attempts,    \* number of attempts started
    calls,       \* number of get_token calls made, over all attempts
    simple,      \* every attempt so far went through an adapter without user and
                 \* password, has not failed and has not fallen back
    p_in,        \* argument of a call of parse_principal_name
    p_out,       \* its result
    d_in,        \* argument of a call of decode_jwt: the token's dot-separated segments
    d_out,       \* which decode_jwt was called, and its result
    tasks,       \* the resolutions running side by side, each with its locals
    closed_by,   \* per shared asynchronous credential: the task that closed it last (0: open)
    engine,      \* the engine made by create_engine_with_entra / create_async_engine_with_entra
    pool         \* an AsyncEntraConnectionPool and the tasks that use it

vars == <<entry, args, kwargs, pc, cred, ops, trail, db_token, mgmt_token, username,
          conninfo, result, driver, attempts, calls, simple, p_in, p_out, d_in, d_out, tasks, closed_by, engine, pool>>

attempt_vars == <<entry, args, kwargs, pc, cred, ops, trail, db_token, mgmt_token,
                  username, conninfo, result, driver, attempts, calls, simple>>

(***************************************************************************)
(* Credentials                                                             *)
(***************************************************************************)
\* "None": no credential given; "sync" / "async": a TokenCredential / an
\* AsyncTokenCredential of the caller; "other": any other object;
\* "default_sync" / "default_async": DefaultAzureCredential() made by the library.
\* TokenCredential and AsyncTokenCredential are runtime-checkable protocols:
\* isinstance holds for every object with the protocol's methods, and an
\* asynchronous credential has get_token too.
IsTokenCredential(c) == c \in {"sync", "async", "default_sync", "default_async"}

IsAsyncTokenCredential(c) == c \in {"async", "default_async"}

\* `credential or DefaultAzureCredential()`
OrDefault(c, is_async) ==
    IF c = "None" THEN (IF is_async THEN "default_async" ELSE "default_sync") ELSE c

(***************************************************************************)
(* Outcomes                                                                *)
(***************************************************************************)
Pending == [kind |-> "none", user |-> PyNone, password |-> PyNone, error |-> <<>>]

Return(user, password) ==
    [kind |-> "return", user |-> user, password |-> password, error |-> <<>>]

Raise(type, message) ==
    [kind |-> "raise", user |-> PyNone, password |-> PyNone, error |-> <<type, message>>]

NoConnect == [called |-> FALSE, kwargs |-> [user |-> PyNone, password |-> PyNone, credential |-> "None"]]

Connect(kw) == [called |-> TRUE, kwargs |-> kw]

\* what the driver received from a connection factory of an engine
NoEngineConnect == [called |-> FALSE, user |-> PyNone, password |-> PyNone, host |-> <<>>]

EngineConnect(user, password, host) ==
    [called |-> TRUE, user |-> user, password |-> password, host |-> host]

\* no engine has been created
NoEngine ==
    [factory |-> "none", scheme |-> "", cred |-> "None", state |-> "none", error |-> <<>>,
     ops |-> <<>>, invocations |-> 0, resolution |-> Pending, requests |-> 0,
     connect |-> NoEngineConnect]

(***************************************************************************)
(* Entry points                                                            *)
(***************************************************************************)
DirectEntries == {"get_entra_conninfo", "get_entra_conninfo_async",
                  "psycopg2_get_entra_conninfo", "psycopg2_get_entra_conninfo_async"}

Psycopg2Adapters == {"connect_with_entra", "connect_with_entra_async"}

Psycopg3Adapters == {"SyncEntraConnection_connect", "AsyncEntraConnection_connect",
                     "async_entra_connection_connect"}

SqlalchemyAdapters == {"provide_token", "provide_token_async"}

Adapters == Psycopg2Adapters \cup Psycopg3Adapters \cup SqlalchemyAdapters

\* the psycopg2 extension has its own copies of the resolution functions
UsesPsycopg2Copy(e) == e \in Psycopg2Adapters
                       \/ e \in {"psycopg2_get_entra_conninfo", "psycopg2_get_entra_conninfo_async"}

\* the entry point resolves through get_entra_conninfo_async
IsAsync(e) == e \in {"get_entra_conninfo_async", "psycopg2_get_entra_conninfo_async",
                     "connect_with_entra_async", "AsyncEntraConnection_connect",
                     "async_entra_connection_connect"}

\* the exception types the SQLAlchemy listeners and async_entra_connection catch
CaughtErrors == {"TokenDecodeError", "UsernameExtractionError", "ScopePermissionError"}

Wraps(e) == e \in SqlalchemyAdapters \cup {"async_entra_connection_connect"}

(***************************************************************************)
(* get_entra_conninfo / get_entra_conninfo_async                           *)
(***************************************************************************)
UsernameError(is_async) ==
    IF is_async THEN "Could not determine username from token claims."
    ELSE "Could not determine username from token claims. Ensure the identity has the proper Azure AD attributes."

\* variant: a DB-scope token that does not decode is answered by the
\* management-scope request
core_after_db_falls_back(token) ==
    LET db_claims == decode_jwt(token) IN
    IF NotClaims(db_claims)
    THEN [fallback |-> TRUE, username |-> PyNone, conninfo |-> Pending]
    ELSE LET name == core_username(db_claims.claims) IN
         IF ~Truthy(name)
         THEN [fallback |-> TRUE, username |-> name, conninfo |-> Pending]
         ELSE [fallback |-> FALSE, username |-> name,
               conninfo |-> Return(name, PyStr(token.value))]

\* core: from the DB-scope token to the decision to fall back
core_after_db(token) ==
    LET db_claims == decode_jwt(token) IN
    IF NotClaims(db_claims)
    THEN [fallback |-> FALSE, username |-> PyNone,
          conninfo |-> Raise("ValueError", "Invalid DB token format")]
    ELSE LET name == core_username(db_claims.claims) IN
         IF ~Truthy(name)
         THEN [fallback |-> TRUE, username |-> name, conninfo |-> Pending]
         ELSE [fallback |-> FALSE, username |-> name,
               conninfo |-> Return(name, PyStr(token.value))]

\* core: from the management-scope token to the return value
core_after_mgmt(db, token, is_async) ==
    LET mgmt_claims == decode_jwt(token) IN
    IF NotClaims(mgmt_claims)
    THEN [username |-> PyNone,
          conninfo |-> Raise("ValueError", "Invalid management token format")]
    ELSE LET name == core_username(mgmt_claims.claims) IN
         IF ~Truthy(name)
         THEN [username |-> name, conninfo |-> Raise("ValueError", UsernameError(is_async))]
         ELSE [username |-> name, conninfo |-> Return(name, PyStr(db.value))]

\* psycopg2 extension: from the DB-scope token to the decision to fall back
psycopg2_after_db(token) ==
    LET db_claims == psycopg2_decode_jwt(token) IN
    IF db_claims.raised
    THEN [fallback |-> FALSE, username |-> PyNone,
          conninfo |-> Raise("DecodeError", "token payload does not decode")]
    ELSE LET name == psycopg2_username(db_claims.claims) IN
         IF ~Truthy(name)
         THEN [fallback |-> TRUE, username |-> name, conninfo |-> Pending]
         ELSE [fallback |-> FALSE, username |-> name,
               conninfo |-> Return(name, PyStr(token.value))]

\* psycopg2 extension: from the management-scope token to the return value
psycopg2_after_mgmt(db, token, is_async) ==
    LET mgmt_claims == psycopg2_decode_jwt(token) IN
    IF mgmt_claims.raised
    THEN [username |-> PyNone,
          conninfo |-> Raise("DecodeError", "token payload does not decode")]
    ELSE LET name == psycopg2_username(mgmt_claims.claims) IN
         IF ~Truthy(name)
         THEN [username |-> name, conninfo |-> Raise("ValueError", UsernameError(is_async))]
         ELSE [username |-> name, conninfo |-> Return(name, PyStr(db.value))]

after_db(e, token) ==
    IF UsesPsycopg2Copy(e) THEN psycopg2_after_db(token) ELSE core_after_db(token)

after_mgmt(e, db, token) ==
    IF UsesPsycopg2Copy(e) THEN psycopg2_after_mgmt(db, token, IsAsync(e))
    ELSE core_after_mgmt(db, token, IsAsync(e))

(***************************************************************************)
(* The adapters' use of the conninfo                                       *)
(***************************************************************************)
\* variant: the token-derived username always
psycopg_fill_overwrites_user(kw, ci) ==
    [kw EXCEPT !.password = ci.password, !.user = ci.user]

\* variant: only the fields the caller left unset
psycopg_fill_keeps_password(kw, ci) ==
    [kw EXCEPT !.user = IF ~Truthy(kw.user) THEN ci.user ELSE @,
               !.password = IF ~Truthy(kw.password) THEN ci.password ELSE @]

\* psycopg2 / psycopg3: the token password always, the username if user is unset
psycopg_fill(kw, ci) ==
    LET with_password == [kw EXCEPT !.password = ci.password] IN
    IF ~Truthy(with_password.user) THEN [with_password EXCEPT !.user = ci.user]
    ELSE with_password

\* SQLAlchemy listeners: only the keys missing from cparams
sqlalchemy_fill(kw, ci) ==
    [kw EXCEPT !.user = IF kw.user.t = "none" THEN ci.user ELSE @,
               !.password = IF kw.password.t = "none" THEN ci.password ELSE @]

fill(e, kw, ci) ==
    IF e \in SqlalchemyAdapters THEN sqlalchemy_fill(kw, ci) ELSE psycopg_fill(kw, ci)

\* the except clause around get_entra_conninfo
reraise(e, ci) ==
    IF Wraps(e) /\ ci.error[1] \in CaughtErrors
    THEN Raise("EntraConnectionValueError", "Could not retrieve Entra credentials")
    ELSE ci

\* variant: the adapter writes a password and connects although the
\* resolution raised
Complete_connects_on_failure(e, kw, ci) ==
    /\ conninfo' = ci
    /\ pc' = "done"
    /\ trail' = Append(IF pc \in {"db", "mgmt"} THEN trail ELSE <<"TryDbScope">>,
                       IF ci.kind = "return" THEN "Success" ELSE "Fail")
    /\ IF e \in DirectEntries
       THEN /\ result' = ci
            /\ kwargs' = kw
            /\ driver' = NoConnect
       ELSE IF ci.kind = "raise"
       THEN /\ result' = reraise(e, ci)
            /\ kwargs' = [kw EXCEPT !.password = PyStr(<<"partial">>)]
            /\ driver' = Connect([kw EXCEPT !.password = PyStr(<<"partial">>)])
       ELSE /\ kwargs' = fill(e, kw, ci)
            /\ driver' = Connect(fill(e, kw, ci))
            /\ result' = Return(PyNone, PyNone)

\* The rest of the entry point once get_entra_conninfo has returned or raised.
Complete(e, kw, ci) ==
    /\ conninfo' = ci
    /\ pc' = "done"
    /\ trail' = Append(IF pc \in {"db", "mgmt"} THEN trail ELSE <<"TryDbScope">>,
                       IF ci.kind = "return" THEN "Success" ELSE "Fail")
    /\ IF e \in DirectEntries
       THEN /\ result' = ci
            /\ kwargs' = kw
            /\ driver' = NoConnect
       ELSE IF ci.kind = "raise"
       THEN /\ result' = reraise(e, ci)
            /\ kwargs' = kw
            /\ driver' = NoConnect
       ELSE /\ kwargs' = fill(e, kw, ci)
            /\ driver' = Connect(fill(e, kw, ci))
            /\ result' = Return(PyNone, PyNone)

\* get_entra_token / get_entra_token_async up to the outstanding get_token call
GetTokenOps(e, scope) ==
    IF IsAsync(e) THEN << <<"__aenter__", "">>, <<"get_token", scope>> >>
    ELSE << <<"get_token", scope>> >>

\* variant: a conninfo kept from an earlier attempt is used again
BeginResolution_cached(e, kw, c) ==
    LET credential == OrDefault(c, IsAsync(e)) IN
    /\ cred' = credential
    /\ IF calls > 0
       THEN /\ ops' = <<>>
            /\ calls' = calls
            /\ Complete(e, kw, Return(PyStr(<<"u">>), PyStr(<<"token", AZURE_DB_FOR_POSTGRES_SCOPE, 0>>)))
       ELSE IF IsAsync(e) /\ ~IsAsyncTokenCredential(credential)
       THEN /\ ops' = <<>>
            /\ calls' = calls
            /\ Complete(e, kw, Raise("TypeError", "object does not support the asynchronous context manager protocol"))
       ELSE IF ~IsAsync(e) /\ IsAsyncTokenCredential(credential)
       THEN /\ ops' = GetTokenOps(e, AZURE_DB_FOR_POSTGRES_SCOPE)
            /\ calls' = calls + 1
            /\ Complete(e, kw, Raise("AttributeError", "'coroutine' object has no attribute 'token'"))
       ELSE /\ ops' = GetTokenOps(e, AZURE_DB_FOR_POSTGRES_SCOPE)
            /\ calls' = calls + 1
            /\ pc' = "db"
            /\ trail' = <<"TryDbScope">>
            /\ conninfo' = Pending
            /\ result' = Pending
            /\ kwargs' = kw
            /\ driver' = NoConnect

\* get_entra_conninfo(credential) up to the DB-scope get_token call
BeginResolution(e, kw, c) ==
    LET credential == OrDefault(c, IsAsync(e)) IN
    /\ cred' = credential
    /\ IF IsAsync(e) /\ ~IsAsyncTokenCredential(credential)
       THEN \* `async with` on an object that is no asynchronous context manager
            /\ ops' = <<>>
            /\ calls' = calls
            /\ Complete(e, kw, Raise("TypeError", "object does not support the asynchronous context manager protocol"))
       ELSE IF ~IsAsync(e) /\ IsAsyncTokenCredential(credential)
       THEN \* get_token returns a coroutine, which has no attribute token
            /\ ops' = GetTokenOps(e, AZURE_DB_FOR_POSTGRES_SCOPE)
            /\ calls' = calls + 1
            /\ Complete(e, kw, Raise("AttributeError", "'coroutine' object has no attribute 'token'"))
       ELSE /\ ops' = GetTokenOps(e, AZURE_DB_FOR_POSTGRES_SCOPE)
            /\ calls' = calls + 1
            /\ pc' = "db"
            /\ trail' = <<"TryDbScope">>
            /\ conninfo' = Pending
            /\ result' = Pending
            /\ kwargs' = kw
            /\ driver' = NoConnect

(***************************************************************************)
(* Inputs                                                                  *)
(***************************************************************************)
Credentials == {"None", "sync", "async", "other"}

\* the credentials handed to direct calls of the resolution functions
DirectCredentials == {"None", "sync", "async"}

\* user / password of the caller: missing, empty, given
Users == {PyNone, PyStr(<<>>), PyStr(<<"c">>)}

Passwords == {PyNone, PyStr(<<>>), PyStr(<<"w">>)}

NoKwargs == [user |-> PyNone, password |-> PyNone, credential |-> "None"]

\* the tokens the credential may return for the outstanding request
IssuedTokens(e, scope) ==
    {Token(scope, calls, "jwt", claims) :
        claims \in (IF e \in DirectEntries THEN ClaimsSet ELSE AdapterClaimsSet)}
    \cup {Token(scope, calls, "malformed", EmptyClaims)}

(***************************************************************************)
(* Initial state                                                           *)
(***************************************************************************)
NotCalled == [t |-> "pending", s |-> <<>>]

InitAttempt ==
    /\ entry = "none"
    /\ args = NoKwargs
    /\ kwargs = NoKwargs
    /\ pc = "idle"
    /\ cred = "None"
    /\ ops = <<>>
    /\ trail = <<>>
    /\ db_token = NoToken
    /\ mgmt_token = NoToken
    /\ username = PyNone
    /\ conninfo = Pending
    /\ result = Pending
    /\ driver = NoConnect
    /\ attempts = 0
    /\ calls = 0
    /\ simple = TRUE

Init ==
    /\ InitAttempt
    /\ p_in = PyNone
    /\ p_out = NotCalled
    /\ d_in = <<>>
    /\ d_out = NotCalled
    /\ tasks = <<>>
    /\ closed_by = <<>>
    /\ engine = NoEngine
    /\ pool = <<>>

(***************************************************************************)
(* Entry points: each action is the entry point's code up to its first     *)
(* get_token call, or to its end when it makes none.                       *)
(***************************************************************************)
CanCall == pc = "idle" /\ attempts < MaxAttempts

NewAttempt(e) ==
    /\ entry' = e
    /\ attempts' = attempts + 1
    /\ db_token' = NoToken
    /\ mgmt_token' = NoToken
    /\ username' = PyNone
    /\ UNCHANGED <<p_in, p_out, d_in, d_out, tasks, closed_by, engine, pool>>

\* the entry point raises before it resolves anything
Reject(kw, c, error) ==
    /\ cred' = c
    /\ ops' = <<>>
    /\ calls' = calls
    /\ pc' = "done"
    /\ trail' = <<>>
    /\ conninfo' = Pending
    /\ result' = error
    /\ kwargs' = kw
    /\ driver' = NoConnect

\* user and password are both there: straight to the driver
Passthrough(kw, c) ==
    /\ cred' = c
    /\ ops' = <<>>
    /\ calls' = calls
    /\ pc' = "done"
    /\ trail' = <<>>
    /\ conninfo' = Pending
    /\ result' = Return(PyNone, PyNone)
    /\ kwargs' = kw
    /\ driver' = Connect(kw)

\* variant: the adapter resolves credentials whatever the caller passed
NeedsEntra_always(kw) == TRUE

\* psycopg2 / psycopg3: `if not kwargs.get("user") or not kwargs.get("password")`
NeedsEntra(kw) == ~Truthy(kw.user) \/ ~Truthy(kw.password)

\* SQLAlchemy listeners: `if not has_user or not has_password`, has_x being `"x" in cparams`
CparamsNeedEntra(kw) == kw.user.t = "none" \/ kw.password.t = "none"

\* an attempt through an adapter, without user and password, that has not failed
IsSimple(e, kw, outcome) ==
    simple /\ e \in Adapters /\ kw.user = PyNone /\ kw.password = PyNone
           /\ outcome.kind # "raise"

\* core.get_entra_conninfo(credential)
get_entra_conninfo ==
    /\ CanCall
    /\ \E c \in DirectCredentials, user \in {PyNone}, password \in {PyNone} :
         LET kw == [user |-> user, password |-> password, credential |-> "None"] IN
         /\ args' = [kw EXCEPT !.credential = c]
         /\ NewAttempt("get_entra_conninfo")
         /\ BeginResolution("get_entra_conninfo", kw, c)
         /\ simple' = IsSimple("get_entra_conninfo", kw, result')

\* core.get_entra_conninfo_async(credential)
get_entra_conninfo_async ==
    /\ CanCall
    /\ \E c \in DirectCredentials, user \in {PyNone}, password \in {PyNone} :
         LET kw == [user |-> user, password |-> password, credential |-> "None"] IN
         /\ args' = [kw EXCEPT !.credential = c]
         /\ NewAttempt("get_entra_conninfo_async")
         /\ BeginResolution("get_entra_conninfo_async", kw, c)
         /\ simple' = IsSimple("get_entra_conninfo_async", kw, result')

\* psycopg2 extension get_entra_conninfo(credential)
psycopg2_get_entra_conninfo ==
    /\ CanCall
    /\ \E c \in DirectCredentials, user \in {PyNone}, password \in {PyNone} :
         LET kw == [user |-> user, password |-> password, credential |-> "None"] IN
         /\ args' = [kw EXCEPT !.credential = c]
         /\ NewAttempt("psycopg2_get_entra_conninfo")
         /\ BeginResolution("psycopg2_get_entra_conninfo", kw, c)
         /\ simple' = IsSimple("psycopg2_get_entra_conninfo", kw, result')

\* psycopg2 extension get_entra_conninfo_async(credential)
psycopg2_get_entra_conninfo_async ==
    /\ CanCall
    /\ \E c \in DirectCredentials, user \in {PyNone}, password \in {PyNone} :
         LET kw == [user |-> user, password |-> password, credential |-> "None"] IN
         /\ args' = [kw EXCEPT !.credential = c]
         /\ NewAttempt("psycopg2_get_entra_conninfo_async")
         /\ BeginResolution("psycopg2_get_entra_conninfo_async", kw, c)
         /\ simple' = IsSimple("psycopg2_get_entra_conninfo_async", kw, result')

\* psycopg2 extension connect_with_entra(credential, **kwargs)
connect_with_entra ==
    /\ CanCall
    /\ \E c \in Credentials, user \in Users, password \in Passwords :
         LET kw == [user |-> user, password |-> password, credential |-> "None"] IN
         /\ args' = [kw EXCEPT !.credential = c]
         /\ NewAttempt("connect_with_entra")
         /\ LET credential == OrDefault(c, FALSE) IN
            IF ~IsTokenCredential(credential)
            THEN Reject(kw, credential, Raise("ValueError", "credential must be a TokenCredential for synchronous connections"))
            ELSE IF NeedsEntra(kw)
            THEN BeginResolution("connect_with_entra", kw, credential)
            ELSE Passthrough(kw, credential)
         /\ simple' = IsSimple("connect_with_entra", kw, result')

\* psycopg2 extension connect_with_entra_async(credential, **kwargs)
connect_with_entra_async ==
    /\ CanCall
    /\ \E c \in Credentials, user \in Users, password \in Passwords :
         LET kw == [user |-> user, password |-> password, credential |-> "None"] IN
         /\ args' = [kw EXCEPT !.credential = c]
         /\ NewAttempt("connect_with_entra_async")
         /\ LET credential == OrDefault(c, TRUE) IN
            IF ~IsAsyncTokenCredential(credential)
            THEN Reject(kw, credential, Raise("ValueError", "credential must be an AsyncTokenCredential for async connections"))
            ELSE IF NeedsEntra(kw)
            THEN BeginResolution("connect_with_entra_async", kw, credential)
            ELSE Passthrough(kw, credential)
         /\ simple' = IsSimple("connect_with_entra_async", kw, result')

\* psycopg3 extension SyncEntraConnection.connect(**kwargs): kwargs.pop("credential")
SyncEntraConnection_connect ==
    /\ CanCall
    /\ \E c \in Credentials, user \in Users, password \in Passwords :
         LET kw == [user |-> user, password |-> password, credential |-> "None"] IN
         /\ args' = [kw EXCEPT !.credential = c]
         /\ NewAttempt("SyncEntraConnection_connect")
         /\ IF c # "None" /\ IsAsyncTokenCredential(c)
            THEN Reject(kw, c, Raise("ValueError", "credential must be a TokenCredential for synchronous connections"))
            ELSE IF c # "None" /\ ~IsTokenCredential(c)
            THEN Reject(kw, c, Raise("ValueError", "credential must be a TokenCredential for synchronous connections"))
            ELSE IF NeedsEntra(kw)
            THEN BeginResolution("SyncEntraConnection_connect", kw, c)
            ELSE Passthrough(kw, c)
         /\ simple' = IsSimple("SyncEntraConnection_connect", kw, result')

\* psycopg3 extension AsyncEntraConnection.connect(**kwargs): kwargs.pop("credential")
AsyncEntraConnection_connect ==
    /\ CanCall
    /\ \E c \in Credentials, user \in Users, password \in Passwords :
         LET kw == [user |-> user, password |-> password, credential |-> "None"] IN
         /\ args' = [kw EXCEPT !.credential = c]
         /\ NewAttempt("AsyncEntraConnection_connect")
         /\ IF c # "None" /\ ~IsAsyncTokenCredential(c)
            THEN Reject(kw, c, Raise("ValueError", "credential must be an AsyncTokenCredential for async connections"))
            ELSE IF NeedsEntra(kw)
            THEN BeginResolution("AsyncEntraConnection_connect", kw, c)
            ELSE Passthrough(kw, c)
         /\ simple' = IsSimple("AsyncEntraConnection_connect", kw, result')

\* psycopg3 async_entra_connection.AsyncEntraConnection.connect(**kwargs)
async_entra_connection_connect ==
    /\ CanCall
    /\ \E c \in Credentials, user \in Users, password \in Passwords :
         LET kw == [user |-> user, password |-> password, credential |-> "None"] IN
         /\ args' = [kw EXCEPT !.credential = c]
         /\ NewAttempt("async_entra_connection_connect")
         /\ IF c # "None" /\ ~IsAsyncTokenCredential(c)
            THEN Reject(kw, c, Raise("CredentialValueError", "credential must be an AsyncTokenCredential for async connections"))
            ELSE IF NeedsEntra(kw)
            THEN BeginResolution("async_entra_connection_connect", kw, c)
            ELSE Passthrough(kw, c)
         /\ simple' = IsSimple("async_entra_connection_connect", kw, result')

\* sqlalchemy enable_entra_authentication: the do_connect listener; cparams keeps its credential key
provide_token ==
    /\ CanCall
    /\ \E c \in Credentials, user \in Users, password \in Passwords :
         LET kw == [user |-> user, password |-> password, credential |-> c] IN
         /\ args' = [kw EXCEPT !.credential = c]
         /\ NewAttempt("provide_token")
         /\ IF c # "None" /\ ~IsTokenCredential(c)
            THEN Reject(kw, c, Raise("CredentialValueError", "credential must be a TokenCredential for sync connections"))
            ELSE IF CparamsNeedEntra(kw)
            THEN BeginResolution("provide_token", kw, c)
            ELSE Passthrough(kw, c)
         /\ simple' = IsSimple("provide_token", kw, result')

\* variant: the cast keeps only credentials declared as TokenCredential
sync_credential_by_declaration(c) == IF c \in {"sync", "None"} THEN c ELSE "None"

\* provide_token_async, the "cast" of the credential found in cparams:
\* `credential if isinstance(credential, TokenCredential) or credential is None else None`
sync_credential(c) == IF IsTokenCredential(c) \/ c = "None" THEN c ELSE "None"

\* sqlalchemy enable_entra_authentication_async: the do_connect listener
provide_token_async ==
    /\ CanCall
    /\ \E c \in Credentials, user \in Users, password \in Passwords :
         LET kw == [user |-> user, password |-> password, credential |-> c] IN
         /\ args' = [kw EXCEPT !.credential = c]
         /\ NewAttempt("provide_token_async")
         /\ IF c # "None" /\ ~(IsAsyncTokenCredential(c) \/ IsTokenCredential(c))
            THEN Reject(kw, c, Raise("CredentialValueError", "credential must be an AsyncTokenCredential or TokenCredential for async connections"))
            ELSE IF CparamsNeedEntra(kw)
            THEN BeginResolution("provide_token_async", kw, sync_credential(c))
            ELSE Passthrough(kw, c)
         /\ simple' = IsSimple("provide_token_async", kw, result')

(***************************************************************************)
(* The credential answers the outstanding get_token call: each action is   *)
(* the code from the return of get_token to the next get_token call or to  *)
(* the end of the entry point.                                             *)
(***************************************************************************)
\* leaving `async with credential:` in get_entra_token_async
ExitOps(e) == IF IsAsync(e) THEN << <<"__aexit__", "">> >> ELSE <<>>

db_token_returns ==
    /\ pc = "db"
    /\ \E token \in IssuedTokens(entry, AZURE_DB_FOR_POSTGRES_SCOPE) :
         LET step == after_db(entry, token) IN
         /\ db_token' = token
         /\ IF step.fallback
            THEN /\ ops' = ops \o ExitOps(entry) \o GetTokenOps(entry, AZURE_MANAGEMENT_SCOPE)
                 /\ calls' = calls + 1
                 /\ pc' = "mgmt"
                 /\ trail' = Append(trail, "TryMgmtScope")
                 /\ UNCHANGED <<conninfo, result, kwargs, driver>>
            ELSE /\ ops' = ops \o ExitOps(entry)
                 /\ calls' = calls
                 /\ Complete(entry, kwargs, step.conninfo)
         /\ username' = step.username
         /\ simple' = (simple /\ ~step.fallback /\ step.conninfo.kind = "return")
    /\ UNCHANGED <<entry, args, cred, mgmt_token, attempts, p_in, p_out, d_in, d_out, tasks, closed_by, engine, pool>>

\* variant: a get_token error at the DB scope is answered by a request at the
\* management scope
db_token_raises_retries ==
    /\ pc = "db"
    /\ ops' = ops \o ExitOps(entry) \o GetTokenOps(entry, AZURE_MANAGEMENT_SCOPE)
    /\ calls' = calls + 1
    /\ pc' = "mgmt"
    /\ trail' = Append(trail, "TryMgmtScope")
    /\ simple' = FALSE
    /\ UNCHANGED <<entry, args, kwargs, cred, db_token, mgmt_token, username, conninfo,
                   result, driver, attempts, p_in, p_out, d_in, d_out, tasks, closed_by, engine, pool>>

\* get_token raises: the error leaves get_entra_conninfo and the entry point
db_token_raises ==
    /\ pc = "db"
    /\ ops' = ops \o ExitOps(entry)
    /\ Complete(entry, kwargs, Raise("ClientAuthenticationError", "get_token failed"))
    /\ simple' = FALSE
    /\ UNCHANGED <<entry, args, cred, db_token, mgmt_token, username, attempts, calls, p_in, p_out, d_in, d_out, tasks, closed_by, engine, pool>>

mgmt_token_returns ==
    /\ pc = "mgmt"
    /\ \E token \in IssuedTokens(entry, AZURE_MANAGEMENT_SCOPE) :
         /\ mgmt_token' = token
         /\ ops' = ops \o ExitOps(entry)
         /\ username' = after_mgmt(entry, db_token, token).username
         /\ Complete(entry, kwargs, after_mgmt(entry, db_token, token).conninfo)
    /\ UNCHANGED <<entry, args, cred, db_token, attempts, calls, simple, p_in, p_out, d_in, d_out, tasks, closed_by, engine, pool>>

mgmt_token_raises ==
    /\ pc = "mgmt"
    /\ ops' = ops \o ExitOps(entry)
    /\ Complete(entry, kwargs, Raise("ClientAuthenticationError", "get_token failed"))
    /\ UNCHANGED <<entry, args, cred, db_token, mgmt_token, username, attempts, calls, simple, p_in, p_out, d_in, d_out, tasks, closed_by, engine, pool>>

\* The entry point has returned or raised: its locals are dropped, and the
\* library keeps nothing of the attempt (it has no module-level state).
attempt_ends ==
    /\ pc = "done"
    /\ entry' = "none"
    /\ args' = NoKwargs
    /\ kwargs' = NoKwargs
    /\ pc' = "idle"
    /\ cred' = "None"
    /\ ops' = <<>>
    /\ trail' = <<>>
    /\ db_token' = NoToken
    /\ mgmt_token' = NoToken
    /\ username' = PyNone
    /\ conninfo' = Pending
    /\ result' = Pending
    /\ driver' = NoConnect
    /\ UNCHANGED <<attempts, calls, simple, p_in, p_out, d_in, d_out, tasks, closed_by, engine, pool>>

Next ==
    \/ attempt_ends
    \/ get_entra_conninfo
    \/ get_entra_conninfo_async
    \/ psycopg2_get_entra_conninfo
    \/ psycopg2_get_entra_conninfo_async
    \/ connect_with_entra
    \/ connect_with_entra_async
    \/ SyncEntraConnection_connect
    \/ AsyncEntraConnection_connect
    \/ async_entra_connection_connect
    \/ provide_token
    \/ provide_token_async
    \/ db_token_returns
    \/ db_token_raises
    \/ mgmt_token_returns
    \/ mgmt_token_raises

Spec == Init /\ [][Next]_vars

(***************************************************************************)
(* parse_principal_name on its own                                         *)
(***************************************************************************)
\* Longest principal name tried.
MaxNameLen == 2

PathPrefixes == {<<>>, <<"/">>, <<"x">>, <<"/","x">>, <<"/","s","u","b","s","c","r","i","p","t","i","o","n","s","/","1","2","3","4","5","/","r","e","s","o","u","r","c","e","g","r","o","u","p","s","/","m","y","g","r","o","u","p","/">>}

ProviderParts == {<<>>,
                  <<"p","r","o","v","i","d","e","r","s","/","M","i","c","r","o","s","o","f","t",".","M","a","n","a","g","e","d","I","d","e","n","t","i","t","y","/","u","s","e","r","A","s","s","i","g","n","e","d","I","d","e","n","t","i","t","i","e","s">>,
                  <<"p","r","o","v","i","d","e","r","s","/","M","I","C","R","O","S","O","F","T",".","M","A","N","A","G","E","D","I","D","E","N","T","I","T","Y","/","U","S","E","R","A","S","S","I","G","N","E","D","I","D","E","N","T","I","T","I","E","S">>,
                  PROVIDER_SUFFIX,
                  <<"p","r","o","v","i","d","e","r","s","/","S","o","m","e","O","t","h","e","r","/","r","e","s","o","u","r","c","e">>,
                  <<"M","i","c","r","o","s","o","f","t",".","M","a","n","a","g","e","d","I","d","e","n","t","i","t","y","/","u","s","e","r","A","s","s","i","g","n","e","d","I","d","e","n","t","i","t","i","e","s">>}

Separators == {<<>>, <<"/">>}

NameChars == {"f", "O", "/"}

Names == UNION {[1..n -> NameChars] : n \in 0..MaxNameLen}

Paths == {a \o b \o c \o d : a \in PathPrefixes, b \in ProviderParts, c \in Separators, d \in Names}

ParseInputs == {PyNone} \cup {PyStr(p) : p \in Paths}

InitParse ==
    /\ InitAttempt
    /\ p_in \in ParseInputs
    /\ p_out = NotCalled
    /\ d_in = <<>>
    /\ d_out = NotCalled
    /\ tasks = <<>>
    /\ closed_by = <<>>
    /\ engine = NoEngine
    /\ pool = <<>>

parse_call ==
    /\ p_out = NotCalled
    /\ p_out' = parse_principal_name(p_in)
    /\ UNCHANGED <<p_in, d_in, d_out, tasks, closed_by, engine, attempt_vars, pool>>

NextParse == parse_call

SpecParse == InitParse /\ [][NextParse]_vars

(***************************************************************************)
(* decode_jwt on its own                                                   *)
(***************************************************************************)
\* Most dot-separated segments of a token tried.
MaxSegments == 4

\* A segment of a token string: n is its length modulo 4, body is what its
\* characters are the base64url encoding of: nothing ("empty", the segment is
\* the empty string), a JSON object ("obj", with its claims), a JSON value
\* that is no object ("num"), bytes that are no JSON ("text").
Segment(n, body, claims) == [n |-> n, body |-> body, claims |-> claims]

ExpiredClaims == [sub |-> PyStr(<<"s">>), exp |-> PyStr(<<"0">>)]

Segments ==
    {Segment(0, "empty", EmptyClaims),
     Segment(0, "obj", [sub |-> PyStr(<<"s">>)]),
     Segment(2, "obj", ExpiredClaims),
     Segment(3, "obj", EmptyClaims),
     Segment(2, "num", EmptyClaims),
     Segment(2, "text", EmptyClaims),
     Segment(1, "text", EmptyClaims)}

TokenStrings == UNION {[1..k -> Segments] : k \in 1..MaxSegments}

RECURSIVE DataLen(_)
\* number of base64 characters in the parts, modulo 4
DataLen(parts) ==
    IF parts = <<>> THEN 0 ELSE (parts[1].n + DataLen(Tail(parts))) % 4

\* base64.urlsafe_b64decode of the parts joined by dots, after `pads` padding
\* characters were appended: characters outside the alphabet (the dots) are
\* discarded, then the padding must complete the last group of four.
B64Decode(parts, pads) ==
    LET len == DataLen(parts)
        full == {i \in 1..Len(parts) : parts[i].body # "empty"}
    IN IF ~(len = 0 \/ (len = 2 /\ pads >= 2) \/ (len = 3 /\ pads >= 1))
       THEN [ok |-> FALSE, body |-> "text", claims |-> EmptyClaims]
       ELSE IF full = {}
       THEN [ok |-> TRUE, body |-> "empty", claims |-> EmptyClaims]
       ELSE IF Cardinality(full) = 1
       THEN LET part == parts[CHOOSE i \in full : TRUE] IN
            [ok |-> TRUE, body |-> part.body, claims |-> part.claims]
       ELSE IF \A i \in full : parts[i].body = "num" /\ parts[i].n = 0
       THEN [ok |-> TRUE, body |-> "num", claims |-> EmptyClaims]
       ELSE [ok |-> TRUE, body |-> "text", claims |-> EmptyClaims]

\* jwt.utils.base64url_decode: pads the input to a multiple of four
base64url_decode(parts) ==
    LET len == (DataLen(parts) + Len(parts) - 1) % 4 IN
    B64Decode(parts, (4 - len) % 4)

DecodeReturn(body, claims) == [kind |-> "return", body |-> body, claims |-> claims, error |-> ""]

DecodeNone == [kind |-> "return", body |-> "None", claims |-> EmptyClaims, error |-> ""]

DecodeRaise(type) == [kind |-> "raise", body |-> "None", claims |-> EmptyClaims, error |-> type]

\* jwt.decode(token, options={"verify_signature": False}): rsplit on the last
\* dot, split on the first, header / payload / signature must decode, header
\* and payload must be JSON objects; signature and expiry are not verified.
jwt_decode(token) ==
    IF Len(token) < 3 THEN DecodeRaise("DecodeError")
    ELSE LET header == base64url_decode(<<token[1]>>)
             payload == base64url_decode(SubSeq(token, 2, Len(token) - 1))
             crypto == base64url_decode(<<token[Len(token)]>>)
         IN IF ~header.ok \/ header.body # "obj" THEN DecodeRaise("DecodeError")
            ELSE IF ~payload.ok \/ ~crypto.ok THEN DecodeRaise("DecodeError")
            ELSE IF payload.body # "obj" THEN DecodeRaise("DecodeError")
            ELSE DecodeReturn("obj", payload.claims)

\* core.decode_jwt on a token string: `except Exception: return None`
core_decode_jwt(token) ==
    IF jwt_decode(token).kind = "raise" THEN DecodeNone ELSE jwt_decode(token)

\* psycopg2 extension decode_jwt on a token string: token.split(".")[1], one
\* to four padding characters, base64.urlsafe_b64decode, json.loads
psycopg2_decode_jwt_string(token) ==
    IF Len(token) < 2 THEN DecodeRaise("IndexError")
    ELSE LET payload == B64Decode(<<token[2]>>, 4 - token[2].n) IN
         IF ~payload.ok THEN DecodeRaise("binascii.Error")
         ELSE IF payload.body \in {"empty", "text"} THEN DecodeRaise("JSONDecodeError")
         ELSE DecodeReturn(payload.body, payload.claims)

InitDecode ==
    /\ InitAttempt
    /\ p_in = PyNone
    /\ p_out = NotCalled
    /\ d_in \in TokenStrings
    /\ d_out = NotCalled
    /\ tasks = <<>>
    /\ closed_by = <<>>
    /\ engine = NoEngine
    /\ pool = <<>>

core_decode_jwt_call ==
    /\ d_out = NotCalled
    /\ d_out' = [fn |-> "core", out |-> core_decode_jwt(d_in)]
    /\ UNCHANGED <<d_in, p_in, p_out, tasks, closed_by, engine, attempt_vars, pool>>

psycopg2_decode_jwt_call ==
    /\ d_out = NotCalled
    /\ d_out' = [fn |-> "psycopg2", out |-> psycopg2_decode_jwt_string(d_in)]
    /\ UNCHANGED <<d_in, p_in, p_out, tasks, closed_by, engine, attempt_vars, pool>>

NextDecode ==
    \/ core_decode_jwt_call
    \/ psycopg2_decode_jwt_call

SpecDecode == InitDecode /\ [][NextDecode]_vars

(***************************************************************************)
(* Resolutions side by side: sync threads and async tasks calling          *)
(* get_entra_conninfo / get_entra_conninfo_async, each step being the code  *)
(* between two get_token calls.  The only objects two resolutions can have  *)
(* in common are the credentials their callers passed.                     *)
(***************************************************************************)
\* Number of resolutions running side by side.
MaxTasks == 2

TaskIds == 1..MaxTasks

\* the credential objects of the callers: one TokenCredential, two AsyncTokenCredentials
SyncCredentialObjects == {"s1"}

AsyncCredentialObjects == {"a1", "a2"}

CredentialObjects(e) == IF IsAsync(e) THEN AsyncCredentialObjects ELSE SyncCredentialObjects

NewTask(e, c) ==
    [entry |-> e, cred |-> c, pc |-> "start", ops |-> <<>>, db_token |-> NoToken,
     mgmt_token |-> NoToken, conninfo |-> Pending, broken_by |-> 0]

TaskDigits == <<"1", "2", "3", "4">>

\* the tokens the credential may issue to task t: one with a upn of that
\* task, one without any username claim
TaskTokens(t, scope) ==
    {Token(scope, t, "jwt", claims) :
        claims \in {[upn |-> PyStr(<<"u", TaskDigits[t]>>), sub |-> PyStr(<<"s">>)],
                    [sub |-> PyStr(<<"s">>)]}}

InitConcurrent ==
    /\ InitAttempt
    /\ p_in = PyNone
    /\ p_out = NotCalled
    /\ d_in = <<>>
    /\ d_out = NotCalled
    /\ tasks \in [TaskIds -> {NewTask(e, c) : e \in {"get_entra_conninfo", "get_entra_conninfo_async"},
                                              c \in {"s1", "a1", "a2"}}]
    /\ \A t \in TaskIds : tasks[t].cred \in CredentialObjects(tasks[t].entry)
    /\ closed_by = [c \in AsyncCredentialObjects |-> 0]
    /\ engine = NoEngine
    /\ pool = <<>>

\* leaving `async with credential:` closes the credential
Closed(t) ==
    IF IsAsync(tasks[t].entry) THEN [closed_by EXCEPT ![tasks[t].cred] = t] ELSE closed_by

\* get_entra_conninfo up to the DB-scope get_token call
task_begins(t) ==
    /\ tasks[t].pc = "start"
    /\ tasks' = [tasks EXCEPT ![t].pc = "db",
                              ![t].ops = GetTokenOps(tasks[t].entry, AZURE_DB_FOR_POSTGRES_SCOPE)]
    /\ UNCHANGED <<closed_by, engine, p_in, p_out, d_in, d_out, attempt_vars, pool>>

\* the DB-scope get_token returns
task_db_token_returns(t) ==
    /\ tasks[t].pc = "db"
    /\ \E token \in TaskTokens(t, AZURE_DB_FOR_POSTGRES_SCOPE) :
         LET step == core_after_db(token) IN
         tasks' = [tasks EXCEPT
                     ![t].db_token = token,
                     ![t].pc = IF step.fallback THEN "mgmt" ELSE "done",
                     ![t].conninfo = step.conninfo,
                     ![t].ops = IF step.fallback
                                THEN @ \o ExitOps(tasks[t].entry)
                                       \o GetTokenOps(tasks[t].entry, AZURE_MANAGEMENT_SCOPE)
                                ELSE @ \o ExitOps(tasks[t].entry)]
    /\ closed_by' = Closed(t)
    /\ UNCHANGED <<engine, p_in, p_out, d_in, d_out, attempt_vars, pool>>

\* the management-scope get_token returns
task_mgmt_token_returns(t) ==
    /\ tasks[t].pc = "mgmt"
    /\ \E token \in TaskTokens(t, AZURE_MANAGEMENT_SCOPE) :
         tasks' = [tasks EXCEPT
                     ![t].mgmt_token = token,
                     ![t].pc = "done",
                     ![t].conninfo = core_after_mgmt(tasks[t].db_token, token,
                                                     IsAsync(tasks[t].entry)).conninfo,
                     ![t].ops = @ \o ExitOps(tasks[t].entry)]
    /\ closed_by' = Closed(t)
    /\ UNCHANGED <<engine, p_in, p_out, d_in, d_out, attempt_vars, pool>>

\* get_token on a credential that has been closed may raise: the request
\* fails and the error leaves the resolution
task_token_raises(t) ==
    /\ tasks[t].pc \in {"db", "mgmt"}
    /\ IsAsync(tasks[t].entry)
    /\ closed_by[tasks[t].cred] # 0
    /\ tasks' = [tasks EXCEPT
                   ![t].pc = "done",
                   ![t].conninfo = Raise("ClientAuthenticationError", "get_token failed"),
                   ![t].broken_by = closed_by[tasks[t].cred],
                   ![t].ops = @ \o ExitOps(tasks[t].entry)]
    /\ closed_by' = Closed(t)
    /\ UNCHANGED <<engine, p_in, p_out, d_in, d_out, attempt_vars, pool>>

NextConcurrent ==
    \E t \in TaskIds :
        \/ task_begins(t)
        \/ task_db_token_returns(t)
        \/ task_mgmt_token_returns(t)
        \/ task_token_raises(t)

SpecConcurrent == InitConcurrent /\ [][NextConcurrent]_vars

(***************************************************************************)
(* sqlalchemy_entra_id_extension: create_engine_with_entra and             *)
(* create_async_engine_with_entra, and the connection factories they pass  *)
(* to SQLAlchemy as creator / async_creator.                               *)
(***************************************************************************)
\* Number of connections an engine opens through its factory.
MaxInvocations == 2

EngineFactories == {"create_engine_with_entra", "create_async_engine_with_entra"}

\* the core function a factory's connection factory calls
CoreEntry(f) ==
    IF f = "create_async_engine_with_entra" THEN "get_entra_conninfo_async"
    ELSE "get_entra_conninfo"

Schemes == {"postgresql", "postgresql+psycopg", "postgresql+asyncpg"}

\* parsed.hostname of the URL given to the factory
HostName == <<"h">>

\* the text of a token string: base64url characters and dots only
TokenText(scope, serial) ==
    <<"e", ".", (IF scope = AZURE_DB_FOR_POSTGRES_SCOPE THEN "d" ELSE "m"), ".", TaskDigits[serial]>>

EngineToken(scope, serial, form, claims) ==
    [value |-> TokenText(scope, serial), form |-> form, claims |-> claims]

\* the user names the tokens of an engine's credential may carry
EngineUsers == {<<"u", "@", "x">>, <<"a", ":", "b">>, <<"a", "/", "b">>, <<"a", "%", "4", "1">>}

\* what get_token may return to the n-th invocation of a connection factory
EngineTokens(scope, n) ==
    {EngineToken(scope, n, "jwt", [upn |-> PyStr(u), sub |-> PyStr(<<"s">>)]) : u \in EngineUsers}
    \cup {EngineToken(scope, n, "jwt", [sub |-> PyStr(<<"s">>)]),
          EngineToken(scope, n, "malformed", EmptyClaims)}

\* NoToken stands for a get_token call that raised
EngineReplies(scope, n) == EngineTokens(scope, n) \cup {NoToken}

\* get_entra_conninfo(credential) / get_entra_conninfo_async(credential) as
\* one call: what it returns or raises and what it does to the credential
resolve(e, c, db, mgmt) ==
    IF ~IsAsync(e) /\ IsAsyncTokenCredential(c)
    THEN [conninfo |-> Raise("AttributeError", "'coroutine' object has no attribute 'token'"),
          ops |-> GetTokenOps(e, AZURE_DB_FOR_POSTGRES_SCOPE)]
    ELSE IF db = NoToken
    THEN [conninfo |-> Raise("ClientAuthenticationError", "get_token failed"),
          ops |-> GetTokenOps(e, AZURE_DB_FOR_POSTGRES_SCOPE) \o ExitOps(e)]
    ELSE IF ~core_after_db(db).fallback
    THEN [conninfo |-> core_after_db(db).conninfo,
          ops |-> GetTokenOps(e, AZURE_DB_FOR_POSTGRES_SCOPE) \o ExitOps(e)]
    ELSE [conninfo |-> IF mgmt = NoToken
                       THEN Raise("ClientAuthenticationError", "get_token failed")
                       ELSE core_after_mgmt(db, mgmt, IsAsync(e)).conninfo,
          ops |-> GetTokenOps(e, AZURE_DB_FOR_POSTGRES_SCOPE) \o ExitOps(e)
                  \o GetTokenOps(e, AZURE_MANAGEMENT_SCOPE) \o ExitOps(e)]

\* f"{user}:{password}@{parsed.hostname}" followed by the path of the URL
auth_url(user, password) == user \o <<":">> \o password \o <<"@">> \o HostName \o <<"/", "d">>

\* index of the first character of s at or after `from` that is in `set`
\* (Len(s) + 1 when there is none)
FirstIn(s, from, set) ==
    IF \E i \in from..Len(s) : s[i] \in set
    THEN CHOOSE i \in from..Len(s) : s[i] \in set /\ \A j \in from..(i - 1) : s[j] \notin set
    ELSE Len(s) + 1

\* urllib.parse.unquote, for the escapes of the characters of this model
RECURSIVE unquote(_)
unquote(s) ==
    IF s = <<>> THEN <<>>
    ELSE IF Len(s) >= 3 /\ SubSeq(s, 1, 3) = <<"%", "4", "1">>
    THEN <<"A">> \o unquote(SubSeq(s, 4, Len(s)))
    ELSE <<Head(s)>> \o unquote(Tail(s))

\* sqlalchemy.engine.url.make_url on what follows "://": the user
\* ([^:/]*), the password (:[^@]*) and "@", all optional, then the host
\* ([^/:?]+); user and password are unquoted
make_url(rest) ==
    LET stop  == FirstIn(rest, 1, {":", "/"})
        at    == FirstIn(rest, stop + 1, {"@"})
        short == {k \in 0..(stop - 2) : rest[k + 1] = "@"}
        HostOf(r) == SubSeq(r, 1, FirstIn(r, 1, {"/", ":", "?"}) - 1)
    IN  IF stop <= Len(rest) /\ rest[stop] = ":" /\ at <= Len(rest)
        THEN [username |-> PyStr(unquote(SubSeq(rest, 1, stop - 1))),
              password |-> PyStr(unquote(SubSeq(rest, stop + 1, at - 1))),
              host |-> HostOf(SubSeq(rest, at + 1, Len(rest)))]
        ELSE IF short # {}
        THEN LET k == CHOOSE k \in short : \A j \in short : j <= k
             IN  [username |-> PyStr(unquote(SubSeq(rest, 1, k))),
                  password |-> PyNone,
                  host |-> HostOf(SubSeq(rest, k + 2, Len(rest)))]
        ELSE [username |-> PyNone, password |-> PyNone, host |-> HostOf(rest)]

InitEngine ==
    /\ InitAttempt
    /\ p_in = PyNone
    /\ p_out = NotCalled
    /\ d_in = <<>>
    /\ d_out = NotCalled
    /\ tasks = <<>>
    /\ closed_by = <<>>
    /\ engine = NoEngine
    /\ pool = <<>>

\* the factory up to its return: the credential check and create_engine with
\* the connection factory; no call is made on the credential
NewEngine(f, scheme, c) ==
    LET credential == OrDefault(c, IsAsync(CoreEntry(f)))
        accepted == IF f = "create_async_engine_with_entra"
                    THEN IsAsyncTokenCredential(credential)
                    ELSE IsTokenCredential(credential)
    IN  [NoEngine EXCEPT
           !.factory = f, !.scheme = scheme, !.cred = credential,
           !.state = IF accepted THEN "created" ELSE "raised",
           !.error = IF accepted THEN <<>>
                     ELSE IF f = "create_async_engine_with_entra"
                     THEN <<"ValueError", "credential must be an AsyncTokenCredential for async engines">>
                     ELSE <<"ValueError", "credential must be a TokenCredential for synchronous engines">>]

create_engine_with_entra ==
    /\ engine.factory = "none"
    /\ \E scheme \in Schemes, c \in Credentials :
         engine' = NewEngine("create_engine_with_entra", scheme, c)
    /\ UNCHANGED <<p_in, p_out, d_in, d_out, tasks, closed_by, attempt_vars, pool>>

create_async_engine_with_entra ==
    /\ engine.factory = "none"
    /\ \E scheme \in Schemes, c \in Credentials :
         engine' = NewEngine("create_async_engine_with_entra", scheme, c)
    /\ UNCHANGED <<p_in, p_out, d_in, d_out, tasks, closed_by, attempt_vars, pool>>

CanInvoke(f) ==
    /\ engine.factory = f
    /\ engine.state = "created"
    /\ engine.invocations < MaxInvocations

\* creator: one resolution, then a temporary engine on the URL that carries
\* the user and the password, and its raw connection
connect_with_fresh_token ==
    /\ CanInvoke("create_engine_with_entra")
    /\ \E db \in EngineReplies(AZURE_DB_FOR_POSTGRES_SCOPE, engine.invocations + 1),
          mgmt \in EngineReplies(AZURE_MANAGEMENT_SCOPE, engine.invocations + 1) :
         LET r == resolve("get_entra_conninfo", engine.cred, db, mgmt)
             url == make_url(auth_url(r.conninfo.user.s, r.conninfo.password.s))
         IN  engine' = [engine EXCEPT
                          !.invocations = @ + 1,
                          !.ops = @ \o r.ops,
                          !.resolution = r.conninfo,
                          !.requests = Len(SelectSeq(r.ops, LAMBDA o : o[1] = "get_token")),
                          !.connect = IF r.conninfo.kind = "return"
                                      THEN EngineConnect(url.username, url.password, url.host)
                                      ELSE NoEngineConnect]
    /\ UNCHANGED <<p_in, p_out, d_in, d_out, tasks, closed_by, attempt_vars, pool>>

\* async_creator: one resolution, then psycopg.AsyncConnection.connect with
\* the user and the password as keyword arguments, for the schemes it knows
async_connect_with_fresh_token ==
    /\ CanInvoke("create_async_engine_with_entra")
    /\ \E db \in EngineReplies(AZURE_DB_FOR_POSTGRES_SCOPE, engine.invocations + 1),
          mgmt \in EngineReplies(AZURE_MANAGEMENT_SCOPE, engine.invocations + 1) :
         LET r == resolve("get_entra_conninfo_async", engine.cred, db, mgmt)
         IN  engine' = [engine EXCEPT
                          !.invocations = @ + 1,
                          !.ops = @ \o r.ops,
                          !.resolution = r.conninfo,
                          !.requests = Len(SelectSeq(r.ops, LAMBDA o : o[1] = "get_token")),
                          !.connect = IF r.conninfo.kind = "return"
                                         /\ engine.scheme \in {"postgresql+psycopg", "postgresql"}
                                      THEN EngineConnect(r.conninfo.user, r.conninfo.password, HostName)
                                      ELSE NoEngineConnect]
    /\ UNCHANGED <<p_in, p_out, d_in, d_out, tasks, closed_by, attempt_vars, pool>>

NextEngine ==
    \/ create_engine_with_entra
    \/ create_async_engine_with_entra
    \/ connect_with_fresh_token
    \/ async_connect_with_fresh_token

SpecEngine == InitEngine /\ [][NextEngine]_vars

\* the elements of a sequence
Range(s) == {s[i] : i \in DOMAIN s}

(***************************************************************************)
(* samples/psycopg2/getting_started/async_pool_utils.py:                   *)
(* AsyncEntraConnectionPool used by several asyncio tasks.  A task runs    *)
(* without interruption from one await to the next, so each action is the  *)
(* code between two awaits.  Connections are numbered in the order the     *)
(* connection factory returns them.                                        *)
(***************************************************************************)
\* Number of tasks calling getconn.
MaxPoolTasks == 2

\* Number of connections the connection factory can make.
MaxConnections == 3

PoolTaskIds == 1..MaxPoolTasks

\* the minconn and maxconn arguments tried
MinConns == 0..2

MaxConns == 1..2

\* a call made on the pool: the method and the task or connection it concerns
Call(op, arg) == [op |-> op, arg |-> arg]

\* a task outside getconn, after its last getconn ended with `out`
TaskIdle(out, conn, in_use) == [pc |-> "idle", out |-> out, conn |-> conn, in_use |-> in_use]

\* __init__: idle is self._pool, used is self._used, closed is self._closed,
\* lock is the task holding self._lock (0: nobody); closings are the
\* connections on which close() has been called, made counts the connections
\* the factory has returned, last is the latest call made on the pool
NewPool(minconn, maxconn) ==
    [minconn |-> minconn, maxconn |-> maxconn, last |-> Call("none", 0),
     idle |-> <<>>, used |-> {}, closed |-> FALSE, lock |-> 0,
     made |-> 0, closings |-> {},
     task |-> [t \in PoolTaskIds |-> TaskIdle("none", 0, 0)]]

InitPool ==
    /\ InitAttempt
    /\ p_in = PyNone
    /\ p_out = NotCalled
    /\ d_in = <<>>
    /\ d_out = NotCalled
    /\ tasks = <<>>
    /\ closed_by = <<>>
    /\ engine = NoEngine
    /\ pool \in {NewPool(minconn, maxconn) : minconn \in MinConns, maxconn \in MaxConns}

PoolUnchanged ==
    UNCHANGED <<p_in, p_out, d_in, d_out, tasks, closed_by, engine, attempt_vars>>

\* `async with pool`: __aenter__ makes minconn connections before the pool is
\* handed to the tasks
pool_aenter ==
    /\ pool.last = Call("none", 0)
    /\ pool.made + pool.minconn <= MaxConnections
    /\ pool' = [pool EXCEPT !.last = Call("__aenter__", 0),
                            !.idle = [i \in 1..pool.minconn |-> pool.made + i],
                            !.made = @ + pool.minconn]
    /\ PoolUnchanged

\* getconn once self._lock is held by task t, up to the return, the raise or
\* the await of the connection factory
GetconnLocked(p, t) ==
    IF p.idle # <<>>
    THEN [p EXCEPT !.idle = SubSeq(p.idle, 1, Len(p.idle) - 1),
                   !.used = @ \cup {p.idle[Len(p.idle)]},
                   !.lock = 0,
                   !.task[t] = TaskIdle("conn", p.idle[Len(p.idle)], Cardinality(p.used))]
    ELSE IF Cardinality(p.used) < p.maxconn
    THEN [p EXCEPT !.lock = t,
                   !.task[t] = [pc |-> "factory", out |-> "none", conn |-> 0,
                                in_use |-> Cardinality(p.used)]]
    ELSE [p EXCEPT !.lock = 0,
                   !.task[t] = TaskIdle("Connection pool exhausted", 0, Cardinality(p.used))]

\* task t calls getconn: the test of self._closed, then the lock
getconn_called(t) ==
    /\ pool.task[t].pc = "idle"
    /\ pool' = IF pool.closed
               THEN [pool EXCEPT !.last = Call("getconn", t),
                                 !.task[t] = TaskIdle("Connection pool is closed", 0,
                                                      Cardinality(pool.used))]
               ELSE IF pool.lock # 0
               THEN [pool EXCEPT !.last = Call("getconn", t),
                                 !.task[t] = [pc |-> "lock", out |-> "none", conn |-> 0,
                                              in_use |-> 0]]
               ELSE GetconnLocked([pool EXCEPT !.last = Call("getconn", t)], t)
    /\ PoolUnchanged

\* task t, waiting for self._lock, gets it
getconn_lock_acquired(t) ==
    /\ pool.task[t].pc = "lock"
    /\ pool.lock = 0
    /\ pool' = GetconnLocked(pool, t)
    /\ PoolUnchanged

\* the connection factory returns to task t: self._used.add(conn); return conn
getconn_factory_returns(t) ==
    /\ pool.task[t].pc = "factory"
    /\ pool.made < MaxConnections
    /\ pool' = [pool EXCEPT !.made = @ + 1,
                            !.used = @ \cup {pool.made + 1},
                            !.lock = 0,
                            !.task[t] = TaskIdle("conn", pool.made + 1, pool.task[t].in_use)]
    /\ PoolUnchanged

\* the connection factory raises: the error leaves getconn and the lock is released
getconn_factory_raises(t) ==
    /\ pool.task[t].pc = "factory"
    /\ pool' = [pool EXCEPT !.lock = 0,
                            !.task[t] = TaskIdle("factory error", 0, pool.task[t].in_use)]
    /\ PoolUnchanged

\* putconn(conn), for any connection the factory has made
putconn(conn) ==
    /\ conn \in 1..pool.made
    /\ pool' = IF pool.closed \/ conn \notin pool.used
               THEN [pool EXCEPT !.last = Call("putconn", conn)]
               ELSE IF Len(pool.idle) < pool.minconn
               THEN [pool EXCEPT !.last = Call("putconn", conn), !.used = @ \ {conn},
                                 !.idle = Append(@, conn)]
               ELSE [pool EXCEPT !.last = Call("putconn", conn), !.used = @ \ {conn},
                                 !.closings = @ \cup {conn}]
    /\ PoolUnchanged

\* closeall (also __aexit__)
closeall ==
    /\ pool' = [pool EXCEPT !.last = Call("closeall", 0),
                            !.closed = TRUE,
                            !.closings = @ \cup Range(pool.idle) \cup pool.used,
                            !.idle = <<>>,
                            !.used = {}]
    /\ PoolUnchanged

NextPool ==
    \/ pool_aenter
    \/ \E t \in PoolTaskIds :
         \/ getconn_called(t)
         \/ getconn_lock_acquired(t)
         \/ getconn_factory_returns(t)
         \/ getconn_factory_raises(t)
    \/ \E conn \in 1..MaxConnections : putconn(conn)
    \/ closeall

SpecPool == InitPool /\ [][NextPool]_vars

(***************************************************************************)
(* Properties                                                              *)
(***************************************************************************)

\* the get_token calls of the attempt, and their scopes, in order
Requests == SelectSeq(ops, LAMBDA o : o[1] = "get_token")

Scopes == [i \in 1..Len(Requests) |-> Requests[i][2]]

\* The principal name of a resource path, stated on the path: the path is
\* <beginning> "/" <name>, the name is not empty and holds no slash, and
\* <beginning>, case aside, ends with the user-assigned-identity provider.
PrincipalNames(path) ==
    {SubSeq(path, i + 1, Len(path)) : i \in
        {i \in 1..Len(path) :
            /\ path[i] = "/"
            /\ i < Len(path)
            /\ \A j \in (i + 1)..Len(path) : path[j] # "/"
            /\ EndsWith(Lower(SubSeq(path, 1, i - 1)), PROVIDER_SUFFIX)}}

PrincipalOf(v) ==
    IF v.t = "str" /\ PrincipalNames(v.s) # {}
    THEN PyStr(CHOOSE name \in PrincipalNames(v.s) : TRUE)
    ELSE PyNone

\* the candidates of a claims object in their order of priority
Candidates(claims) ==
    <<PrincipalOf(Get(claims, "xms_mirid")), Get(claims, "upn"),
      Get(claims, "preferred_username"), Get(claims, "unique_name")>>

\* the first candidate that is there, None when there is none
FirstAvailable(claims) ==
    LET c == Candidates(claims)
        there == {i \in 1..Len(c) : Truthy(c[i])}
    IN IF there = {} THEN PyNone
       ELSE c[CHOOSE i \in there : \A j \in there : i <= j]

\* C1: whatever claims a token carries, the username extracted from it is the
\* first available of: the principal name parsed from xms_mirid, upn,
\* preferred_username, unique_name.  A DB-scope token with an available
\* candidate ends the resolution with that candidate as user; a
\* management-scope token with an available candidate does the same.
C1_UsernamePriorityOrder ==
    /\ (pc \in {"mgmt", "done"} /\ db_token.form = "jwt"
            /\ Truthy(FirstAvailable(db_token.claims)))
        => (pc = "done" /\ conninfo = Return(FirstAvailable(db_token.claims), PyStr(db_token.value)))
    /\ (pc = "done" /\ mgmt_token.form = "jwt"
            /\ Truthy(FirstAvailable(mgmt_token.claims)))
        => conninfo = Return(FirstAvailable(mgmt_token.claims), PyStr(db_token.value))

C3_FallbackToManagementScope ==
    (pc = "done" /\ db_token.form = "jwt" /\ ~Truthy(FirstAvailable(db_token.claims)))
        => /\ Scopes = <<AZURE_DB_FOR_POSTGRES_SCOPE, AZURE_MANAGEMENT_SCOPE>>
           /\ conninfo.kind = "return"
                => /\ Truthy(conninfo.user)
                   /\ conninfo.user \in Range(Candidates(mgmt_token.claims))
                   /\ conninfo.password = PyStr(db_token.value)
                   /\ conninfo.password # PyStr(mgmt_token.value)

\* C4: every resolution follows TryDbScope -> Success | TryMgmtScope ->
\* Success | Fail: the DB-scope request is the first token request, the
\* management-scope request is made if and only if the DB-scope token yielded
\* no username (it decodes and none of its candidates is available), at most
\* two requests are made, no state is entered twice, and once the requests
\* have returned the call has ended in exactly one of Success and Fail.
C4_ResolutionStateMachine ==
    /\ trail \in {<<>>, <<"TryDbScope">>,
                  <<"TryDbScope", "Success">>, <<"TryDbScope", "Fail">>,
                  <<"TryDbScope", "TryMgmtScope">>,
                  <<"TryDbScope", "TryMgmtScope", "Success">>,
                  <<"TryDbScope", "TryMgmtScope", "Fail">>}
    /\ Len(Scopes) <= 2
    /\ Len(Scopes) >= 1 => Scopes[1] = AZURE_DB_FOR_POSTGRES_SCOPE
    /\ Len(Scopes) = 2 => Scopes[2] = AZURE_MANAGEMENT_SCOPE
    /\ (pc \in {"mgmt", "done"} /\ db_token.form = "jwt")
        => (AZURE_MANAGEMENT_SCOPE \in Range(Scopes) <=> ~Truthy(FirstAvailable(db_token.claims)))
    /\ (pc \in {"mgmt", "done"} /\ db_token.form # "jwt")
        => AZURE_MANAGEMENT_SCOPE \notin Range(Scopes)
    /\ pc = "db" => ENABLED db_token_returns
    /\ pc = "mgmt" => ENABLED mgmt_token_returns
    /\ (pc = "done" /\ trail # <<>>)
        => /\ trail[Len(trail)] \in {"Success", "Fail"}
           /\ trail[Len(trail)] = "Success" <=> conninfo.kind = "return"
           /\ trail[Len(trail)] = "Fail" <=> conninfo.kind = "raise"

\* the messages that say the username could not be determined
UsernameErrors == {"Could not determine username from token claims.",
                   "Could not determine username from token claims. Ensure the identity has the proper Azure AD attributes."}

\* C5: when neither the DB-scope token nor the management-scope token yields
\* a username, the resolution returns no conninfo and raises an error whose
\* message says that the username could not be determined from the token
\* claims, after exactly two token requests.
C5_UnresolvableUsernameError ==
    (/\ pc = "done"
     /\ db_token.form = "jwt" /\ ~Truthy(FirstAvailable(db_token.claims))
     /\ mgmt_token.form = "jwt" /\ ~Truthy(FirstAvailable(mgmt_token.claims)))
        => /\ conninfo.kind = "raise"
           /\ conninfo.error[2] \in UsernameErrors
           /\ Len(Scopes) = 2
           /\ ~driver.called

\* C6: in every adapter, when the caller supplies both user and password
\* (each a non-empty value), get_token is never called during that attempt.
C6_NoTokenRequestWhenBothSupplied ==
    (pc # "idle" /\ entry \in Adapters /\ Truthy(args.user) /\ Truthy(args.password))
        => /\ Requests = <<>>
           /\ db_token = NoToken
           /\ mgmt_token = NoToken

C6_BothSuppliedReachDriver ==
    /\ pc = "done"
    /\ entry \in Adapters
    /\ args.credential = "sync"
    /\ Truthy(args.user)
    /\ Truthy(args.password)
    /\ driver.called
    /\ ops = <<>>

C8_ParsePrincipalName ==
    p_out # NotCalled => p_out = PrincipalOf(p_in)

C8_MixedCaseProviderParsed ==
    /\ p_out = PyStr(<<"f", "O">>)
    /\ ~EndsWith(SubSeq(p_in.s, 1, Len(p_in.s) - 3), PROVIDER_SUFFIX)

\* C9: tokens are never cached or reused between connection attempts: after
\* N successive attempts through an adapter, each without user and password
\* and each receiving a DB-scope token that yields a username, get_token has
\* been called exactly N times.
C9_OneRequestPerAttempt ==
    (simple /\ pc \in {"idle", "done"}) => calls = attempts

C9_TwoAttemptsTwoRequests ==
    /\ simple
    /\ pc = "done"
    /\ attempts >= 2
    /\ calls = attempts
    /\ driver.called
    /\ driver.kwargs.password = PyStr(<<"token", AZURE_DB_FOR_POSTGRES_SCOPE, calls>>)

\* the adapters of synchronous connections, and the asynchronous psycopg adapters
SyncAdapters == {"connect_with_entra", "SyncEntraConnection_connect", "provide_token"}

AsyncPsycopgAdapters == {"connect_with_entra_async", "AsyncEntraConnection_connect",
                         "async_entra_connection_connect"}

\* the kind of credential the adapter expects
ExpectedCredential(e) == IF e \in SyncAdapters THEN "sync" ELSE "async"

CredentialErrors ==
    {Raise(type, message) :
        type \in {"ValueError", "CredentialValueError"},
        message \in {"credential must be a TokenCredential for synchronous connections",
                     "credential must be a TokenCredential for sync connections",
                     "credential must be an AsyncTokenCredential for async connections"}}

\* C10: a credential argument that is not a token credential of the kind the
\* adapter expects (TokenCredential for the synchronous adapters,
\* AsyncTokenCredential for the asynchronous psycopg adapters) is rejected
\* with a credential error before any token request is made and before the
\* driver's connect is invoked.
C10_WrongCredentialRejected ==
    (/\ pc # "idle"
     /\ entry \in SyncAdapters \cup AsyncPsycopgAdapters
     /\ args.credential # "None"
     /\ args.credential # ExpectedCredential(entry))
        => /\ result \in CredentialErrors
           /\ Requests = <<>>
           /\ ~driver.called

\* C11: the credential parameter is consumed by the adapter and is never part
\* of the parameters the driver's connect receives, in the psycopg3
\* connection classes and in the SQLAlchemy do_connect listeners alike,
\* whether or not a token was requested.
C11_CredentialNotPassedToDriver ==
    (entry \in Psycopg3Adapters \cup SqlalchemyAdapters /\ driver.called)
        => driver.kwargs.credential = "None"

\* a token of the attempt did not decode
MalformedTokenSeen == db_token.form = "malformed" \/ mgmt_token.form = "malformed"

\* both tokens decoded and the resolution found no username in either
UsernameUnresolved ==
    /\ db_token.form = "jwt"
    /\ mgmt_token.form = "jwt"
    /\ conninfo.kind = "raise"

\* the adapters documented to raise EntraConnectionValueError
WrappingAdapters == {"async_entra_connection_connect", "provide_token", "provide_token_async"}

\* C12: when Entra credentials cannot be retrieved during a connection
\* attempt (a token is malformed or no username can be resolved), the psycopg3
\* AsyncEntraConnection.connect and the SQLAlchemy do_connect listeners raise
\* EntraConnectionValueError to the caller.
C12_RetrievalFailureWrapped ==
    (pc = "done" /\ entry \in WrappingAdapters /\ (MalformedTokenSeen \/ UsernameUnresolved))
        => /\ result.kind = "raise"
           /\ result.error[1] = "EntraConnectionValueError"

\* C13: invalid credential type, malformed token and unresolvable username
\* are reported as three distinct error kinds: a malformed token as
\* TokenDecodeError, an unresolvable username as UsernameExtractionError, an
\* invalid credential as a credential error, so that the error raised tells
\* which of the three occurred.
C13_ThreeDistinctErrorKinds ==
    /\ (pc = "done" /\ entry \in DirectEntries /\ MalformedTokenSeen)
        => (result.kind = "raise" /\ result.error[1] = "TokenDecodeError")
    /\ (pc = "done" /\ entry \in DirectEntries /\ UsernameUnresolved)
        => (result.kind = "raise" /\ result.error[1] = "UsernameExtractionError")
    /\ (pc = "done" /\ entry \in Adapters /\ args.credential = "other")
        => (result.kind = "raise"
            /\ result.error[1] \notin {"TokenDecodeError", "UsernameExtractionError"}
            /\ result \in CredentialErrors
                \cup {Raise("CredentialValueError", "credential must be an AsyncTokenCredential or TokenCredential for async connections")})

\* the token is three segments of which the middle one is base64url JSON
ThreeSegmentJson(token) ==
    /\ Len(token) = 3
    /\ token[2].n # 1
    /\ token[2].body \in {"obj", "num"}

\* C14: decode_jwt fails with a decode error (TokenDecodeError, 'Invalid JWT
\* token format') and returns no value for every token that does not consist
\* of exactly three dot-separated segments or whose middle segment is not
\* base64url-encoded JSON.
C14_DecodeErrorOnMalformedToken ==
    (d_out # NotCalled /\ ~ThreeSegmentJson(d_in))
        => d_out.out = DecodeRaise("TokenDecodeError")

\* C15: decode_jwt is purely structural: for every three-segment token whose
\* middle segment is a base64url-encoded JSON object it returns exactly that
\* object, whatever the header and signature segments contain and whether or
\* not the token's expiry lies in the past.
C15_DecodeIsStructural ==
    (/\ d_out # NotCalled
     /\ d_out.fn = "core"
     /\ Len(d_in) = 3
     /\ d_in[2].n # 1
     /\ d_in[2].body = "obj")
        => d_out.out = DecodeReturn("obj", d_in[2].claims)

\* the tokens the credential has returned in this attempt
Received == (IF db_token # NoToken THEN 1 ELSE 0) + (IF mgmt_token # NoToken THEN 1 ELSE 0)

\* C16: the library never retries a token request: when get_token raises
\* during a resolution, that error propagates to the caller and the
\* resolution makes no further token request, at the same scope or at the
\* other one.  Every request but the last has returned a token, and a request
\* that returned none ends the attempt with its error.
C16_NoRetryAfterGetTokenError ==
    /\ Len(Requests) <= Received + 1
    /\ pc \in {"db", "mgmt"} => Len(Requests) = Received + 1
    /\ (pc = "done" /\ Len(Requests) > Received)
        => /\ conninfo.kind = "raise"
           /\ conninfo.error[1] \in {"ClientAuthenticationError", "AttributeError"}
           /\ result = conninfo
           /\ ~driver.called
    /\ (pc = "done" /\ conninfo.kind = "raise" /\ conninfo.error[1] = "ClientAuthenticationError")
        => /\ Len(Requests) = Received + 1
           /\ result = conninfo

C16_ManagementScopeErrorPropagates ==
    /\ pc = "done"
    /\ entry \in WrappingAdapters
    /\ db_token # NoToken
    /\ mgmt_token = NoToken
    /\ Scopes = <<AZURE_DB_FOR_POSTGRES_SCOPE, AZURE_MANAGEMENT_SCOPE>>
    /\ result = Raise("ClientAuthenticationError", "get_token failed")

\* C17: when credential resolution fails inside an adapter, the driver's
\* connect is never invoked for that attempt and the adapter has written
\* neither user nor password into the caller's connection parameters: kwargs
\* / cparams hold what the caller passed.
C17_FailedResolutionLeavesParameters ==
    (pc = "done" /\ entry \in Adapters /\ (conninfo.kind = "raise" \/ result.kind = "raise"))
        => /\ ~driver.called
           /\ result.kind = "raise"
           /\ kwargs.user = args.user
           /\ kwargs.password = args.password

C17_FailureAfterTwoTokens ==
    /\ pc = "done"
    /\ entry \in Adapters
    /\ conninfo.kind = "raise"
    /\ db_token.form = "jwt"
    /\ mgmt_token.form = "jwt"
    /\ Truthy(args.password)
    /\ ~Truthy(args.user)
    /\ kwargs.password = args.password
    /\ ~driver.called

\* the two resolution functions of core
CoreResolutions == {"get_entra_conninfo", "get_entra_conninfo_async"}

\* what the synchronous get_entra_conninfo returns or raises for the tokens
\* the attempt received
SyncOutcome ==
    IF core_after_db(db_token).fallback
    THEN core_after_mgmt(db_token, mgmt_token, FALSE).conninfo
    ELSE core_after_db(db_token).conninfo

\* C18: the synchronous and asynchronous resolutions are the same machine:
\* for the same tokens handed out by the credential, get_entra_conninfo and
\* get_entra_conninfo_async perform the same sequence of credential
\* operations (get_token at the same scopes in the same order, and no other
\* operation on the credential) and end in the same outcome (same user and
\* password, or failure at the same step).
C18_SyncAsyncSameMachine ==
    (/\ pc = "done"
     /\ entry \in CoreResolutions
     /\ db_token # NoToken
     /\ core_after_db(db_token).fallback => mgmt_token # NoToken)
        => /\ Scopes = (IF core_after_db(db_token).fallback
                        THEN <<AZURE_DB_FOR_POSTGRES_SCOPE, AZURE_MANAGEMENT_SCOPE>>
                        ELSE <<AZURE_DB_FOR_POSTGRES_SCOPE>>)
           /\ ops = [i \in 1..Len(Scopes) |-> <<"get_token", Scopes[i]>>]
           /\ conninfo.kind = SyncOutcome.kind
           /\ conninfo.user = SyncOutcome.user
           /\ conninfo.password = SyncOutcome.password
           /\ trail = (IF core_after_db(db_token).fallback
                       THEN <<"TryDbScope", "TryMgmtScope", IF SyncOutcome.kind = "return" THEN "Success" ELSE "Fail">>
                       ELSE <<"TryDbScope", IF SyncOutcome.kind = "return" THEN "Success" ELSE "Fail">>)

\* the get_token calls task t has made
TaskRequests(t) == SelectSeq(tasks[t].ops, LAMBDA o : o[1] = "get_token")

\* C19: resolutions share no mutable state: when several resolutions (sync
\* threads or async tasks, with the same or different credentials) are
\* interleaved in any order, each returns the user and password derived only
\* from the tokens issued to that resolution, and no resolution changes the
\* outcome or the number of token requests of another: no request of a
\* resolution fails on account of what another resolution did.
C19_ResolutionsDoNotInterfere ==
    \A t \in DOMAIN tasks :
        /\ tasks[t].broken_by \in {0, t}
        /\ (tasks[t].pc = "done" /\ tasks[t].conninfo.kind = "return")
            => /\ tasks[t].db_token.value = <<"token", AZURE_DB_FOR_POSTGRES_SCOPE, t>>
               /\ tasks[t].conninfo.password = PyStr(tasks[t].db_token.value)
               /\ tasks[t].conninfo.user
                    \in Range(Candidates(tasks[t].db_token.claims))
                        \cup Range(Candidates(tasks[t].mgmt_token.claims))
        /\ (tasks[t].pc = "done" /\ tasks[t].broken_by = 0)
            => Len(TaskRequests(t)) = (IF core_after_db(tasks[t].db_token).fallback THEN 2 ELSE 1)

\* the get_token calls made on the engine's credential
EngineRequests == SelectSeq(engine.ops, LAMBDA o : o[1] = "get_token")

\* the schemes async_connect_with_fresh_token connects for
DriverSchemes == {"postgresql", "postgresql+psycopg"}

\* C20: create_engine_with_entra and create_async_engine_with_entra request
\* no token while the engine is being created; each invocation of the
\* connection factory they install performs exactly one credential
\* resolution (one request at the DB scope, and one at the management scope
\* only on fallback) and, when the resolution returns, connects with the
\* user and password of that resolution.
C20_FreshTokenPerConnection ==
    /\ engine.invocations = 0 => engine.ops = <<>>
    /\ engine.invocations > 0 =>
         /\ engine.requests \in {1, 2}
         /\ Len(EngineRequests) >= engine.invocations
         /\ Len(EngineRequests) <= 2 * engine.invocations
         /\ (engine.resolution.kind = "return"
             /\ (engine.factory = "create_async_engine_with_entra" => engine.scheme \in DriverSchemes))
            => /\ engine.connect.called
               /\ engine.connect.user = engine.resolution.user
               /\ engine.connect.password = engine.resolution.password
         /\ engine.resolution.kind # "return" => ~engine.connect.called

\* the claims after xms_mirid, in their order of priority
LaterClaims(claims) ==
    <<Get(claims, "upn"), Get(claims, "preferred_username"), Get(claims, "unique_name")>>

\* the DB-scope token carries an xms_mirid string from which no principal
\* name can be parsed
UnparsableMirid ==
    /\ db_token.form = "jwt"
    /\ IsStr(Get(db_token.claims, "xms_mirid"))
    /\ ~Truthy(PrincipalOf(Get(db_token.claims, "xms_mirid")))

\* C21: when the DB-scope token's xms_mirid is a string from which no
\* principal name can be parsed, the username is the first available of upn,
\* preferred_username, unique_name of that same token, and the
\* management-scope token is requested only if none of them is available.
C21_UnparsableMiridFallsThrough ==
    (pc \in {"mgmt", "done"} /\ UnparsableMirid)
        => /\ (\E i \in 1..3 : Truthy(LaterClaims(db_token.claims)[i]))
                => /\ pc = "done"
                   /\ conninfo = Return(FirstAvailable(db_token.claims), PyStr(db_token.value))
                   /\ Scopes = <<AZURE_DB_FOR_POSTGRES_SCOPE>>
           /\ (AZURE_MANAGEMENT_SCOPE \in Range(Scopes))
                => \A i \in 1..3 : ~Truthy(LaterClaims(db_token.claims)[i])

UsernameClaimKeys == {"xms_mirid", "upn", "preferred_username", "unique_name"}

\* the messages that say a token is malformed
MalformedTokenErrors == {"Invalid DB token format", "Invalid management token format"}

\* C22: a DB-scope token that is well formed but carries no username claim,
\* including one whose claims object is empty, sends the resolution to
\* TryMgmtScope: a management-scope token is requested, and the token is
\* never reported as a malformed token.
C22_NoUsernameClaimGoesToMgmtScope ==
    (/\ pc \in {"mgmt", "done"}
     /\ db_token.form = "jwt"
     /\ DOMAIN db_token.claims \cap UsernameClaimKeys = {})
        => /\ Scopes[Len(Scopes)] = AZURE_MANAGEMENT_SCOPE
           /\ "TryMgmtScope" \in Range(trail)
           /\ ~(conninfo.kind = "raise" /\ conninfo.error[2] = "Invalid DB token format")

\* get_entra_conninfo ended with an error that reports a token that does not
\* decode: the error of decode_jwt itself in the psycopg2 copy
MalformedTokenError ==
    /\ conninfo.kind = "raise"
    /\ \/ conninfo.error[2] \in MalformedTokenErrors
       \/ UsesPsycopg2Copy(entry) /\ conninfo.error[1] = "DecodeError"
    /\ conninfo.error[2] \notin UsernameErrors

WholeProviderSegments(path) ==
    LET i == RFind(path, "/")
        beginning == SubSeq(path, 1, i)
        before == Len(beginning) - Len(PROVIDER_SUFFIX)
    IN  /\ i # -1
        /\ EndsWith(Lower(beginning), PROVIDER_SUFFIX)
        /\ before = 0 \/ beginning[before] = "/"

\* C25: parse_principal_name yields a name only if the three components
\* before the name are whole slash-delimited path segments equal, case
\* aside, to providers, Microsoft.ManagedIdentity and userAssignedIdentities;
\* a path in which the provider text is only the tail of a longer segment
\* yields nothing.
C25_ProviderIsWholeSegments ==
    (p_out # NotCalled /\ Truthy(p_out)) => WholeProviderSegments(p_in.s)

\* the positions in ops at which the library left `async with credential:`,
\* which closes the credential
Closings == {i \in DOMAIN ops : ops[i][1] = "__aexit__"}

\* C26: in the asynchronous path the library never calls get_token on a
\* credential after the library itself has closed that credential, neither
\* for the management-scope request that follows the DB-scope request within
\* one resolution nor for successive attempts that share one caller-supplied
\* credential: a caller-supplied credential has not been closed when a
\* connection attempt returns.
C26_NoGetTokenAfterClose ==
    /\ \A i \in Closings : \A j \in DOMAIN ops : j > i => ops[j][1] # "get_token"
    /\ (pc = "done" /\ IsAsync(entry) /\ args.credential # "None") => Closings = {}

\* the credential passes the type check of provide_token_async
PassesAsyncListenerCheck(c) == IsAsyncTokenCredential(c) \/ IsTokenCredential(c)

\* C27: in enable_entra_authentication_async, a credential that passes the
\* listener's type check is the credential whose get_token is called for that
\* connection; the default credential is used only when the caller supplied
\* no credential.
C27_AcceptedCredentialIsUsed ==
    (entry = "provide_token_async" /\ pc # "idle")
        => /\ (args.credential # "None" /\ PassesAsyncListenerCheck(args.credential)
                    /\ CparamsNeedEntra(args))
                => (cred = args.credential /\ Requests # <<>>)
           /\ (Requests # <<>> /\ cred \in {"default_sync", "default_async"})
                => args.credential = "None"

C27_AsyncCredentialCalled ==
    /\ entry = "provide_token_async"
    /\ pc = "done"
    /\ args.credential = "async"
    /\ cred = "async"
    /\ Requests = << <<"get_token", AZURE_DB_FOR_POSTGRES_SCOPE>> >>

\* C28: in AsyncEntraConnectionPool, after any sequence of getconn and
\* putconn calls, including getconn calls of concurrent tasks, the number of
\* connections handed out and not yet returned never exceeds maxconn, and
\* getconn raises 'Connection pool exhausted' when maxconn connections are
\* in use (stated for a pool on which closeall has not run).
C28_InUseAtMostMaxconn ==
    (pool # <<>> /\ ~pool.closed) =>
        /\ Cardinality(pool.used) <= pool.maxconn
        /\ \A t \in PoolTaskIds :
             (pool.task[t].pc = "idle" /\ pool.task[t].out # "none"
                    /\ pool.task[t].in_use >= pool.maxconn)
                => pool.task[t].out = "Connection pool exhausted"

\* closeall has run
PoolShutDown(p) == p # <<>> /\ p.closed

\* C29: after closeall has run, every connection the pool ever created is
\* closed, the idle and in-use sets are empty and stay empty, every later
\* getconn raises 'Connection pool is closed' and putconn has no effect; this
\* also holds when closeall runs while a getconn call of another task is
\* suspended inside the connection factory.
C29_ClosedPoolStaysEmpty ==
    [][/\ PoolShutDown(pool')
            => /\ pool'.idle = <<>>
               /\ pool'.used = {}
               /\ 1..pool'.made \subseteq pool'.closings
       /\ PoolShutDown(pool)
            => \A t \in PoolTaskIds :
                 (pool.task[t].pc = "idle" /\ pool'.task[t] # pool.task[t])
                    => pool'.task[t] = TaskIdle("Connection pool is closed", 0, Cardinality(pool.used))
      ]_vars

\* connection conn is in the idle list
Idle(p, conn) == conn \in Range(p.idle)

\* what putconn(conn) is to do: an in-use connection goes to the idle list
\* when fewer than minconn connections are idle and is closed otherwise; for
\* any other connection nothing changes
PutconnExpected(conn) ==
    IF conn \in pool.used
    THEN /\ pool'.used = pool.used \ {conn}
         /\ IF Len(pool.idle) < pool.minconn
            THEN pool'.idle = Append(pool.idle, conn) /\ pool'.closings = pool.closings
            ELSE pool'.idle = pool.idle /\ pool'.closings = pool.closings \cup {conn}
    ELSE /\ pool'.used = pool.used
         /\ pool'.idle = pool.idle
         /\ pool'.closings = pool.closings

\* C30: putconn of an in-use connection returns it to the idle list when
\* fewer than minconn connections are idle and closes it otherwise, and
\* putconn of a connection that is not in use changes nothing; in every
\* reachable state the idle list holds at most minconn connections, no
\* connection is both idle and in use, and getconn never hands out a
\* connection the pool has closed.
C30_PutconnKeepsPoolConsistent ==
    [][/\ \A conn \in 1..MaxConnections : putconn(conn) => PutconnExpected(conn)
       /\ Len(pool'.idle) <= pool'.minconn
       /\ \A conn \in 1..pool'.made : ~(Idle(pool', conn) /\ conn \in pool'.used)
       /\ \A t \in PoolTaskIds :
            (pool'.task[t] # pool.task[t] /\ pool'.task[t].out = "conn")
                => pool'.task[t].conn \notin pool'.closings
      ]_vars

====
